---- MODULE Spec2Model ----
(***************************************************************************)
(* A model of eachain/logfilewriter (src/logfilewriter.go): the fileWriter *)
(* with its atomic handle slot fp, byte counter wn and rotating guard, the *)
(* callers' Write and Close, the size-triggered and the midnight rotation  *)
(* bodies (replaceAndRotate), and the retention and archive passes.        *)
(*                                                                         *)
(* The goroutines interleave at the atomic operations and system calls of  *)
(* the source; consecutive operations are one step only where every other  *)
(* step commutes with one of them (said at the step).  The clock counts    *)
(* seconds (the granularity of fileTimeLayout); a day is DayLen seconds.   *)
(* A time.Sleep of 10 s is modelled by what it guarantees here: the clock  *)
(* second has changed when the sleeper goes on.                            *)
(*                                                                         *)
(* Spec is the writer configured without an archive dir, under concurrent  *)
(* Write and Close calls; SpecArchive is the writer with an archive dir,   *)
(* under one goroutine's Write calls.  SpecStartup is the startup pass of  *)
(* a writer created over a directory that earlier runs have filled, in any *)
(* time zone.  SpecWriteFair and SpecRotFair are the size-triggered        *)
(* rotation under fair scheduling of the callers, or of the rotation       *)
(* bodies and the clock.                                                   *)
(***************************************************************************)
EXTENDS Integers, Sequences, FiniteSets, TLC

\* ---------------------------------------------------------------- bounds
MaxTime == 2        \* the clock runs over 0..MaxTime
DayLen == 2         \* seconds in a (scaled) day
MaxWrites == 2      \* Write calls in a run
MaxCloses == 2      \* Close calls in a run
MaxCalls == 3       \* Write and Close calls in a run
MaxRot == 3         \* rotation bodies started in a run
MaxLen == 2         \* a Write passes 1..MaxLen bytes
MaxDay == 2         \* earlier runs left archives dated 0..MaxDay

Callers == {"a", "b"}
SizeTasks == {"s1", "s2"}
RotTasks == SizeTasks \cup {"timer"}
Tasks == RotTasks \cup {"startup"}

\* os.Stdout, the fallback stream; real handles are 1, 2, ... in order of opening
Stdout == 0

VARIABLES
  now,          \* wall clock of the process's time zone, in seconds
  tz,           \* the zone's offset east of UTC, in seconds
  sizeLimit,    \* fw.sizeLimit
  archiveDir,   \* fw.archiveDir # ""
  compress,     \* fw.compress
  rotateDays,   \* fw.rotateDays
  rotating,     \* fw.rotating
  wn,           \* fw.wn
  fp,           \* fw.fp: Stdout or the index of a handle
  handles,      \* every *os.File opened: [ino, off, closes]
  files,        \* every directory entry: [name, isDir, len, where, dir, aday, gz, gzlen]
  callers,      \* each caller's position in Write or Close
  tasks,        \* each background goroutine's position
  wake,         \* the day the midnight timer sleeps until
  nrot,         \* rotation bodies started so far
  nwrites,      \* Write calls started so far
  ncloses,      \* Close calls started so far
  written,      \* bytes passed to the Write calls that have returned
  stdoutUsed,   \* some Write has gone to the fallback stream
  writeErr,     \* some Write has returned an error
  overlap,      \* two Write calls have been in progress at once
  openFailed,   \* some OpenFile, New's or a rotation's, has failed
  closeReturned,\* some Close call has returned
  crossStarts   \* rotation bodies Write has started since wn was last reset

cfg == <<tz, sizeLimit, archiveDir, compress, rotateDays>>
shared == <<rotating, wn, fp>>
disk == <<handles, files>>
counts == <<nrot, nwrites, ncloses>>
hist == <<written, stdoutUsed, writeErr, overlap, openFailed, closeReturned, crossStarts>>
vars == <<now, cfg, shared, disk, callers, tasks, wake, counts, hist>>

\* ------------------------------------------------------------- time, names
Day(t) == t \div DayLen

\* time.Now().Format(fileTimeLayout): "YYYYMMDD-HHMMSS", date and time of day
FormatFileTime(t) == <<t \div DayLen, t % DayLen>>

\* fw.file + "-", the prefix of the writer's log file names
FilePrefix == "app-"

\* filepath.Join(fw.dir, fw.file) + "-" + time.Now().Format(fileTimeLayout), as a
\* directory entry's name: <<date, time of day, prefix, characters beyond the
\* length of a log file name>>
LogName(t) == FormatFileTime(t) \o <<FilePrefix, 0>>

\* time.Parse(fileTimeLayout, name[len(name)-15:])
ParseFileTime(nm) == nm[1] * DayLen + nm[2]

\* time.Parse fails on a time of day that is out of range
ParseFileTimeOK(nm) == nm[1] >= 0 /\ nm[2] \in 0..(DayLen - 1)

\* t.Format(archiveDateLayout): "YYYYMMDD"
FormatArchiveDate(t) == t \div DayLen

\* time.Parse(archiveDateLayout, name): midnight of that date
ParseArchiveDate(d) == d * DayLen

Max(a, b) == IF a >= b THEN a ELSE b

\* ------------------------------------------------------------------- disk
\* the file a handle refers to; a handle keeps its file across a rename or unlink
FileOf(h) == handles[h].ino

\* filepath.Base(fp.Name()) of a handle, as archiveFile compares it
NameOf(h) == IF h = Stdout THEN "stdout" ELSE files[FileOf(h)].name

\* the entries of fw.dir: the files still in the write directory
InWriteDir == {i \in 1..Len(files) : files[i].where = "write"}

IsOpen(h) == h = Stdout \/ handles[h].closes = 0

\* os.OpenFile(name, O_CREATE|O_WRONLY): the file of that name in fw.dir, created
\* empty when there is none; neither O_TRUNC nor O_APPEND, so the handle starts
\* at offset 0 of whatever the file already holds
OpenedFile(nm) ==
  IF \E i \in InWriteDir : files[i].name = nm
  THEN CHOOSE i \in InWriteDir : files[i].name = nm
  ELSE Len(files) + 1

FilesAfterOpen(nm) ==
  IF \E i \in InWriteDir : files[i].name = nm
  THEN files
  ELSE Append(files, [name |-> nm, isDir |-> FALSE, len |-> 0, where |-> "write",
                      dir |-> -1, aday |-> -1, gz |-> "none", gzlen |-> 0])

NewHandle(nm) == [ino |-> OpenedFile(nm), off |-> 0, closes |-> 0]

\* (*os.File).Close, counted per handle
CloseHandle(h) == [handles EXCEPT ![h].closes = @ + 1]

\* ------------------------------------------------------------------- New
SizeLimits == {0, 1}
RotateDaysSet == {0, 1}

IdleCaller == [pc |-> "idle", n |-> 0, h |-> Stdout, late |-> FALSE]
IdleTask == [pc |-> "idle", fp |-> Stdout, old |-> Stdout, entries |-> {}, slept |-> FALSE]

\* the state New returns: the options applied, the first file opened (or the
\* fallback stored), go fw.rotate() and go fw.autoReplaceFileEveryday() started.
\* The directories are empty and the process runs in UTC
Init ==
  /\ now = 0
  /\ tz = 0
  /\ sizeLimit \in SizeLimits
  /\ archiveDir \in BOOLEAN
  /\ compress \in (IF archiveDir THEN BOOLEAN ELSE {FALSE})
  /\ rotateDays \in (IF archiveDir THEN RotateDaysSet ELSE {0})
  /\ rotating = 0
  /\ wn = 0
  /\ \/ /\ fp = 1
        /\ handles = <<[ino |-> 1, off |-> 0, closes |-> 0]>>
        /\ files = <<[name |-> LogName(0), isDir |-> FALSE, len |-> 0, where |-> "write",
                      dir |-> -1, aday |-> -1, gz |-> "none", gzlen |-> 0]>>
     \/ /\ fp = Stdout
        /\ handles = <<>>
        /\ files = <<>>
  /\ callers = [c \in Callers |-> IdleCaller]
  /\ tasks = [t \in Tasks |-> IF t = "startup" THEN [IdleTask EXCEPT !.pc = "rotate"]
                              ELSE IdleTask]
  /\ wake = Day(0) + 1
  /\ nrot = 0 /\ nwrites = 0 /\ ncloses = 0
  /\ written = 0 /\ stdoutUsed = FALSE
  /\ writeErr = FALSE /\ overlap = FALSE
  /\ openFailed = (fp = Stdout)
  /\ closeReturned = FALSE
  /\ crossStarts = 0

\* ----------------------------------------------------------------- Write
InWrite(c) == callers[c].pc \in {"load", "write"}

\* the callers are interchangeable goroutines: "b" makes a call only while "a" is
\* inside one, which is every overlap of two calls up to the callers' names
CanCall(c) == (c = "a" \/ callers["a"].pc # "idle") /\ nwrites + ncloses < MaxCalls

FreeSizeTasks == {t \in SizeTasks : tasks[t].pc = "idle"}

\* Write, lines 118-121: the counter is bumped only when a limit is set; past
\* the limit the winner of the compare-and-swap starts a rotation body.  One
\* step: the add touches only wn and the compare-and-swap only rotating, and no
\* other step touches both
WriteAdd(c, n) ==
  /\ callers[c].pc = "idle"
  /\ CanCall(c)
  /\ nwrites < MaxWrites
  /\ nwrites' = nwrites + 1
  /\ overlap' = (overlap \/ \E d \in Callers \ {c} : InWrite(d))
  /\ callers' = [callers EXCEPT ![c] = [@ EXCEPT !.pc = "load", !.n = n]]
  /\ wn' = IF sizeLimit > 0 THEN wn + n ELSE wn
  /\ IF sizeLimit > 0 /\ wn + n > sizeLimit /\ rotating = 0
     THEN /\ nrot < MaxRot
          /\ FreeSizeTasks # {}
          /\ rotating' = 1
          /\ LET t == IF "s1" \in FreeSizeTasks THEN "s1" ELSE "s2"
             IN tasks' = [tasks EXCEPT ![t] = [IdleTask EXCEPT !.pc = "open"]]
          /\ nrot' = nrot + 1
          /\ crossStarts' = crossStarts + 1
     ELSE UNCHANGED <<rotating, tasks, nrot, crossStarts>>
  /\ UNCHANGED <<now, cfg, fp, disk, wake, ncloses,
                 written, stdoutUsed, writeErr, openFailed, closeReturned>>

\* a Write that waits for the rotating guard to be free before it loads the slot
WriteLoadWaits(c) ==
  /\ callers[c].pc = "load"
  /\ rotating = 0
  /\ callers' = [callers EXCEPT ![c] = [@ EXCEPT !.pc = "write", !.h = fp]]
  /\ UNCHANGED <<now, cfg, shared, disk, tasks, wake, counts, hist>>

\* Write, line 123: fw.fp.Load()
WriteLoad(c) ==
  /\ callers[c].pc = "load"
  /\ callers' = [callers EXCEPT ![c] = [@ EXCEPT !.pc = "write", !.h = fp]]
  /\ UNCHANGED <<now, cfg, shared, disk, tasks, wake, counts, hist>>

\* Write, line 123: (*os.File).Write(b) on the loaded handle, whose result Write returns
WriteFile(c) ==
  /\ callers[c].pc = "write"
  /\ LET h == callers[c].h
         n == callers[c].n
     IN IF h = Stdout
        THEN /\ stdoutUsed' = TRUE
             /\ UNCHANGED <<disk, writeErr>>
        ELSE IF handles[h].closes > 0
        THEN /\ writeErr' = TRUE      \* os.ErrClosed
             /\ UNCHANGED <<disk, stdoutUsed>>
        ELSE /\ files' = [files EXCEPT ![FileOf(h)].len = Max(@, handles[h].off + n)]
             /\ handles' = [handles EXCEPT ![h].off = @ + n]
             /\ UNCHANGED <<stdoutUsed, writeErr>>
  /\ written' = written + callers[c].n
  /\ callers' = [callers EXCEPT ![c] = IdleCaller]
  /\ UNCHANGED <<now, cfg, shared, tasks, wake, counts, overlap, openFailed,
                 closeReturned, crossStarts>>

\* ----------------------------------------------------------------- Close
\* Close, lines 127-128: load the slot; the fallback is left alone
CloseLoad(c) ==
  /\ callers[c].pc = "idle"
  /\ CanCall(c)
  /\ ncloses < MaxCloses
  /\ ncloses' = ncloses + 1
  /\ IF fp # Stdout
     THEN /\ callers' = [callers EXCEPT ![c] =
                 [@ EXCEPT !.pc = "c_store", !.h = fp, !.late = closeReturned]]
          /\ UNCHANGED closeReturned
     ELSE /\ closeReturned' = TRUE
          /\ UNCHANGED callers
  /\ UNCHANGED <<now, cfg, shared, disk, tasks, wake, nrot, nwrites,
                 written, stdoutUsed, writeErr, overlap, openFailed, crossStarts>>

\* Close without line 129: the handle is closed and left in the slot
CloseStoreKeepsSlot(c) ==
  /\ callers[c].pc = "c_store"
  /\ handles' = CloseHandle(callers[c].h)
  /\ closeReturned' = TRUE
  /\ callers' = [callers EXCEPT ![c] = IdleCaller]
  /\ UNCHANGED <<now, cfg, shared, files, tasks, wake, counts,
                 written, stdoutUsed, writeErr, overlap, openFailed, crossStarts>>

\* Close, lines 129-130: fw.fp.Store(os.Stdout), then fp.Close().  One step: no
\* other step touches both the slot and a handle's state
CloseStore(c) ==
  /\ callers[c].pc = "c_store"
  /\ fp' = Stdout
  /\ handles' = CloseHandle(callers[c].h)
  /\ closeReturned' = TRUE
  /\ callers' = [callers EXCEPT ![c] = IdleCaller]
  /\ UNCHANGED <<now, cfg, rotating, wn, files, tasks, wake, counts,
                 written, stdoutUsed, writeErr, overlap, openFailed, crossStarts>>

\* ------------------------------------------------- replaceAndRotate, rotate
\* the end of a background call: replaceAndRotate's deferred
\* atomic.StoreInt32(&fw.rotating, 0) (the startup pass is a bare rotate() and
\* stores nothing), and the timer's next untilTommorrow()
Finish(t) ==
  /\ tasks' = [tasks EXCEPT ![t] =
        IF t = "startup" THEN [IdleTask EXCEPT !.pc = "done"] ELSE IdleTask]
  /\ rotating' = IF t = "startup" THEN rotating ELSE 0
  /\ wake' = IF t = "timer" THEN Day(now) + 1 ELSE wake

\* autoReplaceFileEveryday: the sleep until midnight is over; replaceAndRotate
\* is called directly, with no compare-and-swap on fw.rotating
TimerFire ==
  /\ tasks["timer"].pc = "idle"
  /\ Day(now) >= wake
  /\ nrot < MaxRot
  /\ nrot' = nrot + 1
  /\ tasks' = [tasks EXCEPT !["timer"] = [IdleTask EXCEPT !.pc = "open"]]
  /\ UNCHANGED <<now, cfg, shared, disk, callers, wake, nwrites, ncloses, hist>>

\* replaceAndRotate, lines 138-140 and 146-147: MkdirAll and OpenFile of the name
\* of this second, then old := fw.fp.Load() and atomic.StoreInt64(&fw.wn, 0).
\* One step: every other step commutes with the open or with the load and reset
RotOpen(t) ==
  /\ tasks[t].pc = "open"
  /\ LET nm == LogName(now)
     IN /\ handles' = Append(handles, NewHandle(nm))
        /\ files' = FilesAfterOpen(nm)
        /\ tasks' = [tasks EXCEPT ![t] =
              [@ EXCEPT !.pc = "store", !.fp = Len(handles) + 1, !.old = fp]]
  /\ wn' = 0
  /\ crossStarts' = 0
  /\ UNCHANGED <<now, cfg, rotating, fp, callers, wake, counts,
                 written, stdoutUsed, writeErr, overlap, openFailed, closeReturned>>

\* a failed open that also resets the byte counter
RotOpenFailResets(t) ==
  /\ tasks[t].pc = "open"
  /\ openFailed' = TRUE
  /\ wn' = 0
  /\ tasks' = [tasks EXCEPT ![t] = [@ EXCEPT !.pc = "retry", !.slept = FALSE]]
  /\ UNCHANGED <<now, cfg, rotating, fp, disk, callers, wake, counts,
                 written, stdoutUsed, writeErr, overlap, closeReturned, crossStarts>>

\* replaceAndRotate, lines 141-142: OpenFile failed; sleep the retry interval
RotOpenFail(t) ==
  /\ tasks[t].pc = "open"
  /\ openFailed' = TRUE
  /\ tasks' = [tasks EXCEPT ![t] = [@ EXCEPT !.pc = "retry", !.slept = FALSE]]
  /\ UNCHANGED <<now, cfg, shared, disk, callers, wake, counts,
                 written, stdoutUsed, writeErr, overlap, closeReturned, crossStarts>>

\* a return after the retry sleep without the deferred store of line 136
RotRetryReturnKeepsGuard(t) ==
  /\ tasks[t].pc = "retry"
  /\ tasks[t].slept
  /\ tasks' = [tasks EXCEPT ![t] = IdleTask]
  /\ UNCHANGED <<now, cfg, shared, disk, callers, wake, counts, hist>>

\* replaceAndRotate, line 143: return after the retry sleep
RotRetryReturn(t) ==
  /\ tasks[t].pc = "retry"
  /\ tasks[t].slept
  /\ Finish(t)
  /\ UNCHANGED <<now, cfg, wn, fp, disk, callers, counts, hist>>

\* replaceAndRotate, lines 148-150: fw.fp.Store(fp), then the grace sleep if the
\* old handle is a file
RotStore(t) ==
  /\ tasks[t].pc = "store"
  /\ fp' = tasks[t].fp
  /\ tasks' = [tasks EXCEPT ![t] =
        IF @.old # Stdout THEN [@ EXCEPT !.pc = "grace", !.slept = FALSE]
        ELSE [@ EXCEPT !.pc = "rotate"]]
  /\ UNCHANGED <<now, cfg, rotating, wn, disk, callers, wake, counts, hist>>

\* replaceAndRotate, line 151: old.Close() after the grace sleep
RotCloseOld(t) ==
  /\ tasks[t].pc = "grace"
  /\ tasks[t].slept
  /\ handles' = CloseHandle(tasks[t].old)
  /\ tasks' = [tasks EXCEPT ![t] = [@ EXCEPT !.pc = "rotate", !.slept = FALSE]]
  /\ UNCHANGED <<now, cfg, shared, files, callers, wake, counts, hist>>

\* Go's integer division truncates toward zero
GoDiv(a, b) == IF a >= 0 THEN a \div b ELSE -((-a) \div b)

\* time.Now().Unix(): the instant behind the zone's wall clock
NowUnix == now - tz

\* remove, lines 179-184: the age of an archive directory in whole days, from
\* the UTC midnight that time.Parse makes of the directory's name
AgeDays(d) == GoDiv(NowUnix - ParseArchiveDate(d), DayLen)

\* the dated directories under fw.archiveDir
ArchiveDirs == {files[i].dir : i \in {j \in 1..Len(files) : files[j].dir >= 0}}

\* remove, lines 185-189: the directories the sweep deletes
Expired == {d \in ArchiveDirs : AgeDays(d) > rotateDays}

\* removeArchive: os.RemoveAll of a dated directory, for every expired one
FilesAfterRemove ==
  [i \in 1..Len(files) |->
     IF files[i].dir \in Expired
     THEN [files[i] EXCEPT !.where = IF @ = "archive" THEN "removed" ELSE @,
                           !.gz = IF @ = "none" THEN @ ELSE "removed",
                           !.gzlen = 0, !.dir = -1]
     ELSE files[i]]

\* archive, lines 204-216, without the check of the prefix
SelectedByLength(f) ==
  /\ ~f.isDir
  /\ f.name[4] = 0
  /\ ParseFileTimeOK(f.name)

\* archive, lines 204-216: an entry is skipped if it is a directory, if its
\* name has not the length of a log file name, if it has not the prefix
\* fw.file + "-", or if its last 15 characters do not parse as a timestamp
Selected(f) ==
  /\ ~f.isDir
  /\ f.name[4] = 0
  /\ f.name[3] = FilePrefix
  /\ ParseFileTimeOK(f.name)

\* archive, lines 198-217: the entries of fw.dir that pass the name filter
Candidates == {files[i].name : i \in {j \in InWriteDir : Selected(files[j])}}

\* rotate, lines 158-160: nothing without an archive dir; else remove(), the
\* retention sweep, and archive()'s os.ReadDir(fw.dir), whose entries archiveFile
\* then takes one by one
Rotate(t) ==
  /\ tasks[t].pc = "rotate"
  /\ IF archiveDir /\ Candidates # {}
     THEN /\ tasks' = [tasks EXCEPT ![t] = [@ EXCEPT !.pc = "archfile", !.entries = Candidates]]
          /\ UNCHANGED <<rotating, wake>>
     ELSE Finish(t)
  /\ files' = IF archiveDir THEN FilesAfterRemove ELSE files
  /\ UNCHANGED <<now, cfg, wn, fp, handles, callers, counts, hist>>

\* ReadDir returns the entries sorted by name: the earliest timestamp first
NextEntry(es) == CHOOSE nm \in es : \A o \in es : ParseFileTime(nm) <= ParseFileTime(o)

\* the dated directory named by the day of the archival pass instead
ArchiveDirNow(nm) == FormatArchiveDate(now)

\* archive line 214 and archiveFile line 231: the dated directory a file goes to,
\* named by the timestamp parsed from the file's name
ArchiveDirOf(nm) == FormatArchiveDate(ParseFileTime(nm))

\* os.Rename(originFile, archiveFile): the file leaves fw.dir; a file of the same
\* name already in that directory is replaced
Renamed(i, d) ==
  [j \in 1..Len(files) |->
     IF j = i THEN [files[j] EXCEPT !.where = "archive", !.dir = d, !.aday = Day(now)]
     ELSE IF files[j].where = "archive" /\ files[j].dir = d /\ files[j].name = files[i].name
          THEN [files[j] EXCEPT !.where = "replaced", !.dir = -1]
          ELSE files[j]]

\* archiveFile, lines 247-268: gzip the file into <name>.gz.  how = "ok": copied,
\* flushed and the original removed; "copy": io.Copy failed, the original stays;
\* "flush": the deferred gzip Close failed after the original was removed
Gzipped(i, d, how) ==
  [files EXCEPT ![i] =
     [@ EXCEPT !.where = IF how = "copy" THEN @ ELSE "unlinked",
               !.gz = IF how = "ok" THEN "full" ELSE "partial",
               !.gzlen = IF how = "ok" THEN files[i].len ELSE 0,
               !.dir = d, !.aday = Day(now)]]

GzipOutcomes == {"ok", "copy", "flush"}

\* archiveFile for the next entry of the listing
ArchiveFile(t, how) ==
  /\ tasks[t].pc = "archfile"
  /\ LET nm == NextEntry(tasks[t].entries)
         rest == tasks[t].entries \ {nm}
         here == {i \in InWriteDir : files[i].name = nm}
     IN /\ IF nm = NameOf(fp) \/ here = {}
           THEN /\ how = "ok"
                /\ UNCHANGED files
           ELSE LET i == CHOOSE i \in here : TRUE
                IN IF compress
                   THEN files' = Gzipped(i, ArchiveDirOf(nm), how)
                   ELSE /\ how = "ok"
                        /\ files' = Renamed(i, ArchiveDirOf(nm))
        /\ IF rest = {}
           THEN Finish(t)
           ELSE /\ tasks' = [tasks EXCEPT ![t].entries = rest]
                /\ UNCHANGED <<rotating, wake>>
  /\ UNCHANGED <<now, cfg, wn, fp, handles, callers, counts, hist>>

\* the wall clock moves to the next second; whoever is in one of the 10 s sleeps
\* has then slept long enough to go on (a sleep ends no earlier than it should,
\* and as much later as the scheduler likes)
Tick ==
  /\ now < MaxTime
  /\ now' = now + 1
  /\ tasks' = [t \in Tasks |->
        IF tasks[t].pc \in {"grace", "retry"} THEN [tasks[t] EXCEPT !.slept = TRUE]
        ELSE tasks[t]]
  /\ UNCHANGED <<cfg, shared, disk, callers, wake, counts, hist>>

\* the writer without an archive dir: callers in two goroutines, the size and
\* the midnight rotations, the startup rotate()
Next ==
  \/ \E c \in Callers, n \in 1..MaxLen : WriteAdd(c, n)
  \/ \E c \in Callers : WriteLoad(c)
  \/ \E c \in Callers : WriteFile(c)
  \/ \E c \in Callers : CloseLoad(c)
  \/ \E c \in Callers : CloseStore(c)
  \/ TimerFire
  \/ \E t \in RotTasks : RotOpen(t)
  \/ \E t \in RotTasks : RotOpenFail(t)
  \/ \E t \in RotTasks : RotRetryReturn(t)
  \/ \E t \in RotTasks : RotStore(t)
  \/ \E t \in RotTasks : RotCloseOld(t)
  \/ \E t \in Tasks : Rotate(t)
  \/ Tick

InitPlain == Init /\ archiveDir = FALSE

Spec == InitPlain /\ [][Next]_vars

\* the writer with an archive dir: one goroutine writing, the rotations, and the
\* retention and archive passes of the rotations and of startup
NextArchive ==
  \/ \E n \in 1..MaxLen : WriteAdd("a", n)
  \/ WriteLoad("a")
  \/ WriteFile("a")
  \/ TimerFire
  \/ \E t \in RotTasks : RotOpen(t)
  \/ \E t \in RotTasks : RotOpenFail(t)
  \/ \E t \in RotTasks : RotRetryReturn(t)
  \/ \E t \in RotTasks : RotStore(t)
  \/ \E t \in RotTasks : RotCloseOld(t)
  \/ \E t \in Tasks : Rotate(t)
  \/ \E t \in Tasks, how \in GzipOutcomes : ArchiveFile(t, how)
  \/ Tick

InitArchive == Init /\ archiveDir = TRUE

SpecArchive == InitArchive /\ [][NextArchive]_vars

\* ------------------------------------------------------- fair scheduling
\* the clock has run past MaxTime and is followed no further, but time still
\* passes: whoever is in one of the 10 s sleeps has slept long enough
TickPast ==
  /\ now = MaxTime
  /\ \E t \in Tasks : tasks[t].pc \in {"grace", "retry"} /\ ~tasks[t].slept
  /\ tasks' = [t \in Tasks |->
        IF tasks[t].pc \in {"grace", "retry"} THEN [tasks[t] EXCEPT !.slept = TRUE]
        ELSE tasks[t]]
  /\ UNCHANGED <<now, cfg, shared, disk, callers, wake, counts, hist>>

\* the writer under Write calls of two goroutines with the size-triggered
\* rotations (and the startup pass), the timer left out
NextLive ==
  \/ \E c \in Callers, n \in 1..MaxLen : WriteAdd(c, n)
  \/ \E c \in Callers : WriteLoad(c)
  \/ \E c \in Callers : WriteFile(c)
  \/ \E t \in SizeTasks : RotOpen(t)
  \/ \E t \in SizeTasks : RotOpenFail(t)
  \/ \E t \in SizeTasks : RotRetryReturn(t)
  \/ \E t \in SizeTasks : RotStore(t)
  \/ \E t \in SizeTasks : RotCloseOld(t)
  \/ \E t \in Tasks : Rotate(t)
  \/ \E t \in Tasks, how \in GzipOutcomes : ArchiveFile(t, how)
  \/ Tick
  \/ TickPast

\* New with WithFileSizeLimit, with or without an archive dir (uncompressed,
\* rotateDays left at 0)
InitLive == Init /\ sizeLimit = 1 /\ ~compress /\ rotateDays = 0

\* a goroutine inside Write is scheduled again: its load and its write are
\* each taken in the end.  Nothing is assumed of the rotation bodies or the clock
WriterFair == \A c \in Callers : WF_vars(WriteLoad(c)) /\ WF_vars(WriteFile(c))

SpecWriteFair == InitLive /\ [][NextLive]_vars /\ WriterFair

\* a rotation goroutine is scheduled again and its system calls return:
\* OpenFile returns (with a file or an error), the sleeps end as time passes,
\* the store, the close and the passes are taken in the end.  Nothing is
\* assumed of the callers
RotationFair ==
  /\ WF_vars(Tick \/ TickPast)
  /\ \A t \in SizeTasks :
        /\ WF_vars(RotOpen(t) \/ RotOpenFail(t))
        /\ WF_vars(RotRetryReturn(t))
        /\ WF_vars(RotStore(t))
        /\ WF_vars(RotCloseOld(t))
        /\ WF_vars(Rotate(t))
        /\ WF_vars(\E how \in GzipOutcomes : ArchiveFile(t, how))

SpecRotFair == InitLive /\ [][NextLive]_vars /\ RotationFair

\* ------------------------------------------------ a directory already filled
\* zone offsets east of UTC: half a (scaled) day west, UTC, half a day east
Zones == {-1, 0, 1}

\* what earlier runs archived: one file in the dated directory of every day
\* 0..MaxDay, as archiveFile leaves it (renamed, or gzipped and removed)
OldArchives(gz) ==
  [k \in 1..(MaxDay + 1) |->
     [name |-> LogName((k - 1) * DayLen), isDir |-> FALSE, len |-> 1,
      where |-> IF gz THEN "unlinked" ELSE "archive",
      dir |-> k - 1, aday |-> k - 1,
      gz |-> IF gz THEN "full" ELSE "none", gzlen |-> IF gz THEN 1 ELSE 0]]

\* an entry of fw.dir that is there when New is called
OldEntry(nm, isdir) ==
  [name |-> nm, isDir |-> isdir, len |-> 1, where |-> "write",
   dir |-> -1, aday |-> -1, gz |-> "none", gzlen |-> 0]

\* fw.dir when New is called: yesterday's log file of this writer, a directory
\* named like a log file, a log file name with one more character, a name of
\* the right length with another prefix, and a name with a timestamp that
\* does not parse
OldEntries ==
  LET d == MaxDay - 1
  IN << OldEntry(LogName(d * DayLen + DayLen - 1), FALSE),
        OldEntry(LogName(d * DayLen), TRUE),
        OldEntry(<<d, 0, FilePrefix, 1>>, FALSE),
        OldEntry(<<d, 0, "web-", 0>>, FALSE),
        OldEntry(<<d, DayLen, FilePrefix, 0>>, FALSE) >>

\* the state New returns on day MaxDay in a zone of Zones, with an archive dir
\* configured, over the directories of earlier runs
InitStartup ==
  /\ now \in {MaxDay * DayLen + s : s \in 0..(DayLen - 1)}
  /\ tz \in Zones
  /\ sizeLimit = 0
  /\ archiveDir = TRUE
  /\ compress \in BOOLEAN
  /\ rotateDays \in RotateDaysSet
  /\ rotating = 0
  /\ wn = 0
  /\ LET old == OldArchives(compress) \o OldEntries
     IN \/ /\ fp = 1
           /\ handles = <<[ino |-> Len(old) + 1, off |-> 0, closes |-> 0]>>
           /\ files = Append(old, [OldEntry(LogName(now), FALSE) EXCEPT !.len = 0])
        \/ /\ fp = Stdout
           /\ handles = <<>>
           /\ files = old
  /\ callers = [c \in Callers |-> IdleCaller]
  /\ tasks = [t \in Tasks |-> IF t = "startup" THEN [IdleTask EXCEPT !.pc = "rotate"]
                              ELSE IdleTask]
  /\ wake = Day(now) + 1
  /\ nrot = 0 /\ nwrites = 0 /\ ncloses = 0
  /\ written = 0 /\ stdoutUsed = FALSE
  /\ writeErr = FALSE /\ overlap = FALSE
  /\ openFailed = (fp = Stdout)
  /\ closeReturned = FALSE
  /\ crossStarts = 0

\* the pass New starts with go fw.rotate()
NextStartup ==
  \/ Rotate("startup")
  \/ \E how \in GzipOutcomes : ArchiveFile("startup", how)

SpecStartup == InitStartup /\ [][NextStartup]_vars

\* ------------------------------------------------------------------ claims
\* the rotation bodies (replaceAndRotate) in progress
RotationBodies == {t \in RotTasks : tasks[t].pc # "idle"}

\* C1: at most one rotation body is in progress at any instant, whether the
\* size trigger or the midnight timer started it.
C1_OneRotationAtATime == Cardinality(RotationBodies) <= 1

RECURSIVE SumLen(_)
SumLen(k) == IF k = 0 THEN 0 ELSE files[k].len + SumLen(k - 1)

\* the bytes held by all the log files, rotated and active
FileBytes == SumLen(Len(files))

Quiet == \A c \in Callers : callers[c].pc = "idle"

\* C2: for Write calls that never overlap (and here: none failed, none went to
\* the fallback stream, no Close was called), once they have returned the log
\* files together hold exactly the bytes passed to Write.
C2_NoByteLost ==
  (Quiet /\ ~overlap /\ ~writeErr /\ ~stdoutUsed /\ ncloses = 0) => FileBytes = written

\* C3: per crossing of sizeLimit, from the counter first exceeding the limit to
\* its reset, Write never starts a second rotation body (here: even when no
\* OpenFile of a rotation has failed).
C3_OncePerCrossing == ~openFailed => crossStarts <= 1

\* C4: Write never reports an error to its caller.
C4_WriteNeverFails == ~writeErr

\* C5: the handle a Write loaded from the slot is still open when that Write
\* performs its underlying write.
C5_WriteTargetOpen == \A c \in Callers : callers[c].pc = "write" => IsOpen(callers[c].h)

\* C6: the slot always holds the fallback stream or a handle that was fully
\* opened and has not been closed.
C6_SlotUsable == fp = Stdout \/ (fp \in 1..Len(handles) /\ handles[fp].closes = 0)

\* C6 witness: a Close has returned, a handle has been closed, and a rotation
\* has since put a file handle into the slot
C6_Witness ==
  /\ fp # Stdout
  /\ closeReturned
  /\ \E h \in 1..Len(handles) : handles[h].closes > 0
  /\ \E c \in Callers : callers[c].pc = "write"

\* C7: once a first Close has returned, a later Close call closes no handle: it
\* never finds a file handle in the slot (here: even when no OpenFile has failed,
\* so that the first Close closed a file).
C7_SecondCloseNoOp ==
  ~openFailed => \A c \in Callers : callers[c].pc = "c_store" => ~callers[c].late

\* C8: no file handle is closed more than once.
C8_NoDoubleClose == \A h \in 1..Len(handles) : handles[h].closes <= 1

\* C9: the file of the handle in the slot has not been moved or removed by the
\* archiver, also not between its creation and its becoming the active file
\* (here: even when no OpenFile has failed).
C9_ActiveNeverArchived ==
  ~openFailed => (fp # Stdout => files[FileOf(fp)].where = "write")

OldArchive(d) == files[d + 1]

\* the startup pass has made its retention sweep
SweepDone == tasks["startup"].pc \in {"archfile", "done"}

\* C11: with retentionDays = N, a sweep run at any time of the local day
\* "today", in any time zone, keeps the archive directories dated today and
\* today - N and deletes the directory dated today - (N + 1).
C11_RetentionBoundary ==
  SweepDone =>
    LET today == Day(now)
    IN /\ OldArchive(today).dir = today
       /\ OldArchive(today - rotateDays).dir = today - rotateDays
       /\ OldArchive(today - rotateDays - 1).dir = -1

\* C12: in compress mode the original log file is deleted only when its
\* complete content is in the .gz file: a file removed from the write
\* directory by the archiver has a .gz that was written, flushed and finished.
C12_RemovedOnlyWhenGzComplete ==
  \A i \in 1..Len(files) :
     (files[i].where = "unlinked" /\ files[i].dir >= 0) => files[i].gz = "full"

\* an entry of the write directory as it was before any archive pass
Untouched(f) == f.where = "write" /\ f.dir = -1 /\ f.gz = "none"

\* what C13 calls a different entry: a directory, a name of another length, a
\* name with another prefix, or a timestamp that does not parse
Foreign(f) ==
  \/ f.isDir
  \/ f.name[4] # 0
  \/ f.name[3] # FilePrefix
  \/ f.name[2] >= DayLen

\* C13: an entry of the write directory that is a directory, or whose name has
\* a different length, a different prefix or an unparsable timestamp, is left
\* unchanged by every archive pass.
C13_ForeignEntriesUntouched ==
  \A i \in 1..Len(files) : Foreign(files[i]) => Untouched(files[i])

\* C13 witness: the startup pass is over, it has archived yesterday's log file
\* and the four other entries are where they were
C13_Witness ==
  /\ tasks["startup"].pc = "done"
  /\ \E i \in 1..Len(files) :
        ~Foreign(files[i]) /\ files[i].aday = Day(now) /\ files[i].name[1] < Day(now)
  /\ Cardinality({i \in 1..Len(files) : Foreign(files[i]) /\ Untouched(files[i])}) = 4

\* C17: when an archive dir is set and rotateDays is left at 0, no pass ever
\* deletes an archive directory (here: in UTC).
C17_NoSweepWhenUnset ==
  (rotateDays = 0 /\ tz = 0) =>
    \A i \in 1..Len(files) : files[i].where # "removed" /\ files[i].gz # "removed"

\* ------------------------------------------------- passes, counter, guard
\* the executions of remove() and archive() in progress: past the sweep and
\* the listing of fw.dir, with entries still to handle
PassesInProgress == {t \in Tasks : tasks[t].pc = "archfile"}

\* C14: no execution of remove() or archive() is in progress while another one
\* is, counting the pass New starts and those of the size- and timer-triggered
\* rotations (here: even when no OpenFile has failed).
C14_OnePassAtATime == ~openFailed => Cardinality(PassesInProgress) <= 1

\* a rotation body is between its reset of the counter and its store of the handle
MidSwap == \E t \in RotTasks : tasks[t].pc = "store"

\* C15: with sizeLimit > 0, whenever no rotation is mid-swap (and no Write is in
\* progress), wn is the total length of the Writes that went to the handle in
\* the slot (here: no Close was called, no Write failed, no OpenFile failed).
C15_CounterMatchesSlot ==
  (sizeLimit > 0 /\ ~MidSwap /\ Quiet /\ fp # Stdout
     /\ ncloses = 0 /\ ~writeErr /\ ~openFailed)
  => wn = handles[fp].off

\* C16: a rotation whose OpenFile fails leaves the slot, the counter, the
\* handles and the directories unchanged, runs no pass and ends with the guard
\* at 0; and a Write that finds the guard at 0 with the counter past the limit
\* starts a rotation body.
C16_FailedOpenAbandons ==
  [][ /\ \A t \in RotTasks :
           (tasks[t].pc = "open" /\ tasks'[t].pc = "retry")
           => UNCHANGED <<rotating, wn, fp, handles, files>>
      /\ \A t \in RotTasks :
           (tasks[t].pc = "retry" /\ tasks'[t].pc # "retry")
           => /\ tasks'[t].pc = "idle"
              /\ rotating' = 0
              /\ UNCHANGED <<wn, fp, handles, files>>
      /\ \A c \in Callers :
           (callers[c].pc = "idle" /\ callers'[c].pc = "load"
              /\ sizeLimit > 0 /\ wn' > sizeLimit /\ rotating = 0)
           => /\ rotating' = 1
              /\ \E t \in SizeTasks : tasks[t].pc = "idle" /\ tasks'[t].pc = "open"
    ]_vars

\* C16 witness: the body a Write started has failed to open its file and has
\* returned: the guard is 0, the counter is still past the limit and the slot
\* still holds New's handle
C16_Witness ==
  /\ openFailed /\ crossStarts >= 1
  /\ \A t \in RotTasks : tasks[t].pc = "idle"
  /\ rotating = 0
  /\ sizeLimit > 0 /\ wn > sizeLimit
  /\ fp = 1 /\ Len(handles) = 1

\* C18: the file a rotation opens is distinct from the file of the handle it
\* replaces and from every file opened earlier: no two open handles refer to
\* the same file.
C18_FreshFilePerRotation ==
  \A g, h \in 1..Len(handles) :
     (g # h /\ handles[g].closes = 0 /\ handles[h].closes = 0) => FileOf(g) # FileOf(h)

\* C19: every started Write completes when the writer is scheduled fairly, also
\* if no rotation body and no pass ever makes another step.
C19_WriteCompletes ==
  \A c \in Callers : InWrite(c) ~> (callers[c].pc = "idle")

\* C19 witness: a Write is in progress while the guard is taken and the
\* rotation body is in its grace sleep
C19_Witness ==
  /\ \E c \in Callers : callers[c].pc = "load"
  /\ rotating = 1
  /\ \E t \in SizeTasks : tasks[t].pc = "grace" /\ ~tasks[t].slept

\* C20: once a Write has set the guard to 1, the guard returns to 0 when the
\* rotation body is scheduled fairly, on the open-failure path and on the
\* success path.
C20_GuardReleased == (rotating = 1) ~> (rotating = 0)

\* C20 witness: the guard is taken and the body is in the retry sleep after a
\* failed open, at the end of the modelled clock range
C20_Witness ==
  /\ rotating = 1
  /\ now = MaxTime
  /\ \E t \in SizeTasks : tasks[t].pc = "retry" /\ ~tasks[t].slept

====
